---- MODULE Spec2Model ----
(***************************************************************************)
(* Model of the PoseEstimation component of dancing-creatures              *)
(* (src/unnamed/part_000): the keypoint normaliser, the pose tracker       *)
(* (matching, spawning, eviction) and the life cycle of the effects that   *)
(* drive them (model setup, camera setup, the requestAnimationFrame        *)
(* detection loop).                                                        *)
(*                                                                         *)
(* Numbers.  Scores are percentages (0.4 is 40, 0.45 is 45).  Coordinates  *)
(* are integers.  A pose distance is the pair [total, valid] the code      *)
(* divides (valid = 0 stands for Infinity), compared by cross              *)
(* multiplication.  The poses the specifications feed in differ by whole   *)
(* pixels along one axis, which makes the square roots exact.              *)
(***************************************************************************)
EXTENDS Integers, Sequences, FiniteSets, TLC

VARIABLES
    trackedPoses,    \* useState trackedPoses: the tracked-pose set
    clock,           \* the latest value Date.now() returned
    spawnCount,      \* history: number of tracked poses created so far
    lastCycle,       \* history: what the latest detection cycle did
    mounted,         \* the component is mounted
    detector,        \* useState detector ("none" is null)
    isLoading,       \* useState isLoading
    isVideoReady,    \* useState isVideoReady
    canvasSize,      \* useState canvasSize (canvas.width, canvas.height)
    tfSetup,         \* position of the async setupTensorFlow
    disposed,        \* dispose() has been called on the created detector
    camera,          \* position of the async setupCamera
    srcObject,       \* video.srcObject holds the stream
    tracksStopped,   \* the stream's tracks have been stopped
    loops,           \* the instances of the detection-loop effect
    current,         \* the instance started by the latest effect run
    multiPoseMode,   \* mode-switching variant: useState multiPoseMode
    isChangingMode,  \* mode-switching variant: useState isChangingMode
    modeDetector,    \* mode-switching variant: useState detector (0 is null)
    modeVideoReady,  \* mode-switching variant: useState isVideoReady
    detectors,       \* the detectors poseDetection.createDetector returned
    creating,        \* the runs of createDetector that are at an await
    initializing,    \* the runs of initializeTF that are at an await
    modeLoops,       \* mode-switching variant: the loop effect's instances
    modeCurrent,     \* the instance started by the latest effect run
    createCalls,     \* history: number of calls of createDetector
    toggles,         \* history: number of changes of multiPoseMode
    calledDisposed,  \* history: estimatePoses was called on a disposed detector
    logs,            \* App: useState logs
    captured,        \* history: the entries handed to setLogs, in call order
    consoleCalls     \* history: number of console calls made

trackerVars == <<trackedPoses, clock, spawnCount, lastCycle>>
setupVars == <<detector, isLoading, isVideoReady, tfSetup, disposed,
               camera, srcObject, tracksStopped>>
loopVars == <<mounted, canvasSize, loops, current>>
modeVars == <<multiPoseMode, isChangingMode, modeDetector, modeVideoReady,
              detectors, creating, initializing, modeLoops, modeCurrent,
              createCalls, toggles, calledDisposed>>
appVars == <<logs, captured, consoleCalls>>
vars == <<trackedPoses, clock, spawnCount, lastCycle, mounted, detector,
          isLoading, isVideoReady, canvasSize, tfSetup, disposed, camera,
          srcObject, tracksStopped, loops, current,
          multiPoseMode, isChangingMode, modeDetector, modeVideoReady,
          detectors, creating, initializing, modeLoops, modeCurrent,
          createCalls, toggles, calledDisposed, logs, captured, consoleCalls>>

(***************************************************************************)
(* Bounds of the model.                                                    *)
(***************************************************************************)
MaxSpawns == 2
MaxClockSteps == 1
MaxTrackerClockSteps == 3
MaxLoops == 2
MaxFrameCount == 15
MaxLogCalls == 102
MaxCreateCalls == 3
MaxToggles == 1
MaxVariedCalls == 2

(***************************************************************************)
(* Program constants.                                                      *)
(***************************************************************************)
poseDetectionInterval == 15
maxPoses == 2
PoseScoreFloor == 45
KeypointScoreFloor == 40
MinCandidateKeypoints == 7
MinSpawnKeypoints == 8
MatchThreshold == 40
TooCloseThreshold == 100
StaleAfter == 1500
MinTrackedKeypoints == 7
DefaultCanvasWidth == 640
DefaultCanvasHeight == 480
VideoWidth == DefaultCanvasWidth
VideoHeight == DefaultCanvasHeight
LogLimit == 100

(***************************************************************************)
(* Data.  A keypoint is [name, x, y, score]; a pose is a sequence of       *)
(* keypoints; a tracked pose is [id, keypoints, lastSeen, hue] plus the    *)
(* history field uid, the ordinal of its creation, which the code does not *)
(* have and which only the properties read.                                *)
(***************************************************************************)
\* The joints the component names (its debug overlay lists them).
JointNames ==
    <<"nose", "left_shoulder", "right_shoulder", "left_elbow", "right_elbow",
      "left_wrist", "right_wrist", "left_hip", "right_hip",
      "left_knee", "right_knee">>

\* Where each joint of a body sits relative to its nose, in video pixels.
JointOffset ==
    <<(<<0, 0>>), (<<-30, 40>>), (<<30, 40>>), (<<-40, 80>>), (<<40, 80>>),
      (<<-45, 120>>), (<<45, 120>>), (<<-20, 130>>), (<<20, 130>>),
      (<<-20, 190>>), (<<20, 190>>)>>

\* A raw detector pose: a body whose nose is at (noseX, noseY) in the video
\* frame, joint i reported with score scores[i].
RawPose(noseX, noseY, scores) ==
    [i \in 1..Len(JointNames) |->
        [name |-> JointNames[i],
         x |-> noseX + JointOffset[i][1],
         y |-> noseY + JointOffset[i][2],
         score |-> scores[i]]]

\* Score profiles: which joints the detector is confident of.
ScoresWith(confident) ==
    [i \in 1..Len(JointNames) |-> IF i \in confident THEN 90 ELSE 30]
AllJoints == 1..Len(JointNames)
FullBody == ScoresWith(AllJoints)
NoseNoShoulders == ScoresWith(AllJoints \ {2, 3})
ShouldersNoNose == ScoresWith(AllJoints \ {1})
\* A body seen from the shoulders down: none of the reference joints.
NoReference == ScoresWith(AllJoints \ {1, 2, 3})
\* Head, shoulders and arms only: seven joints, the fewest a candidate has.
UpperBody == ScoresWith(1..7)
\* One joint fewer than that.
SixJoints == ScoresWith(1..6)
\* Seven joints just above the per-joint floor, the others below it.
Faint == [i \in 1..Len(JointNames) |-> IF i <= 7 THEN 50 ELSE 30]
\* Seven confident joints, the others exactly at the per-joint floor.
Borderline == [i \in 1..Len(JointNames) |-> IF i <= 7 THEN 90 ELSE KeypointScoreFloor]

Min(S) == CHOOSE m \in S : \A n \in S : m <= n

\* Math.sqrt, rounded down to a whole pixel.  It is exact for two poses
\* mapped to the same canvas; two poses mapped to canvases of different
\* sizes are hundreds of pixels apart, far from either threshold.
MaxDistance == 2 * (DefaultCanvasWidth + DefaultCanvasHeight)
RECURSIVE SqrtBetween(_, _, _)
SqrtBetween(n, lo, hi) ==
    IF lo = hi THEN lo
    ELSE LET mid == (lo + hi + 1) \div 2
         IN  IF mid * mid <= n THEN SqrtBetween(n, mid, hi)
             ELSE SqrtBetween(n, lo, mid - 1)
Sqrt(n) == SqrtBetween(n, 0, MaxDistance)

\* Array.prototype.find by joint name: the first index from i on, 0 when
\* there is none.
RECURSIVE FindFrom(_, _, _)
FindFrom(pose, name, i) ==
    IF i > Len(pose) THEN 0
    ELSE IF pose[i].name = name THEN i
    ELSE FindFrom(pose, name, i + 1)
FindKeypoint(pose, name) == FindFrom(pose, name, 1)

(***************************************************************************)
(* Keypoint normaliser: the filter/map/filter chain that turns the         *)
(* detector's poses into currentPoses.                                     *)
(***************************************************************************)
RECURSIVE SumScores(_, _)
SumScores(keypoints, i) ==
    IF i > Len(keypoints) THEN 0
    ELSE keypoints[i].score + SumScores(keypoints, i + 1)

\* avgScore > 0.45, the sum taken over all the pose's keypoints (an empty
\* pose gives NaN, which is not above the floor).
PoseScoreOk(pose) ==
    /\ Len(pose) > 0
    /\ SumScores(pose, 1) > PoseScoreFloor * Len(pose)

\* KeypointScoreOk with a slip: >= in place of >.
KeypointScoreOkAtFloor(kp) == kp.score >= KeypointScoreFloor

\* kp.score && kp.score > 0.4
KeypointScoreOk(kp) == kp.score > KeypointScoreFloor

\* ToCanvas with a slip: x is scaled but not mirrored.
ToCanvasUnmirrored(keypoint, canvas) ==
    [name |-> keypoint.name,
     x |-> (keypoint.x * canvas.width) \div VideoWidth,
     y |-> (keypoint.y * canvas.height) \div VideoHeight,
     score |-> keypoint.score]

\* One keypoint mapped into canvas space, mirrored horizontally.  The
\* canvases and raw coordinates the specifications use make the quotients
\* whole, so that the integer division is the code's division.
ToCanvas(keypoint, canvas) ==
    [name |-> keypoint.name,
     x |-> canvas.width - (keypoint.x * canvas.width) \div VideoWidth,
     y |-> (keypoint.y * canvas.height) \div VideoHeight,
     score |-> keypoint.score]

MapKeypoints(keypoints, canvas) ==
    [i \in 1..Len(keypoints) |-> ToCanvas(keypoints[i], canvas)]

CandidateOf(pose, canvas) ==
    [keypoints |-> MapKeypoints(SelectSeq(pose, KeypointScoreOk), canvas)]

EnoughKeypoints(candidate) ==
    Len(candidate.keypoints) >= MinCandidateKeypoints

Normalize(poses, canvas) ==
    LET scored == SelectSeq(poses, PoseScoreOk)
        mapped == [i \in 1..Len(scored) |-> CandidateOf(scored[i], canvas)]
    IN  SelectSeq(mapped, EnoughKeypoints)

(***************************************************************************)
(* Pose tracker.                                                           *)
(***************************************************************************)
ReferenceJoints == <<"nose", "left_shoulder", "right_shoulder">>

Pixels(n) == [total |-> n, valid |-> 1]

\* d1 < d2 for two distances total/valid (Infinity is below nothing, and
\* every finite distance is below Infinity).
DistanceLess(d1, d2) ==
    /\ d1.valid > 0
    /\ \/ d2.valid = 0
       \/ d1.total * d2.valid < d2.total * d1.valid

Abs(n) == IF n < 0 THEN -n ELSE n

\* Math.sqrt(Math.pow(dx, 2) + Math.pow(dy, 2)); along an axis the root
\* is the offset itself.
Hypot(dx, dy) ==
    IF dy = 0 THEN Abs(dx)
    ELSE IF dx = 0 THEN Abs(dy)
    ELSE Sqrt(dx * dx + dy * dy)

\* JointDistance with a slip: a joint missing from one pose still counts
\* as a pair.
JointDistanceCountingMissing(pose1, pose2, name) ==
    LET i == FindKeypoint(pose1, name)
        j == FindKeypoint(pose2, name)
    IN  IF i # 0 /\ j # 0
        THEN [total |-> Hypot(pose1[i].x - pose2[j].x, pose1[i].y - pose2[j].y),
              valid |-> 1]
        ELSE [total |-> 0, valid |-> 1]

JointDistance(pose1, pose2, name) ==
    LET i == FindKeypoint(pose1, name)
        j == FindKeypoint(pose2, name)
    IN  IF i # 0 /\ j # 0
        THEN [total |-> Hypot(pose1[i].x - pose2[j].x, pose1[i].y - pose2[j].y),
              valid |-> 1]
        ELSE [total |-> 0, valid |-> 0]

RECURSIVE SumJointDistances(_, _, _)
SumJointDistances(pose1, pose2, k) ==
    IF k > Len(ReferenceJoints) THEN [total |-> 0, valid |-> 0]
    ELSE LET d == JointDistance(pose1, pose2, ReferenceJoints[k])
             rest == SumJointDistances(pose1, pose2, k + 1)
         IN  [total |-> d.total + rest.total, valid |-> d.valid + rest.valid]

\* calculatePoseDistance with a slip: 0 instead of Infinity when no
\* reference joint is in both poses.
calculatePoseDistanceOrZero(pose1, pose2) ==
    LET sum == SumJointDistances(pose1, pose2, 1)
    IN  IF sum.valid = 0 THEN [total |-> 0, valid |-> 1] ELSE sum

\* totalDistance / validPairs, or Infinity when validPairs is 0.
calculatePoseDistance(pose1, pose2) == SumJointDistances(pose1, pose2, 1)

\* ScanClosest with a slip: <= in place of <, so that of two tracked poses
\* at the same distance the later one wins.
RECURSIVE ScanClosestLast(_, _, _, _, _)
ScanClosestLast(currentPose, updatedTrackedPoses, index, closestDistance, closestPoseIndex) ==
    IF index > Len(updatedTrackedPoses)
    THEN [closestDistance |-> closestDistance, closestPoseIndex |-> closestPoseIndex]
    ELSE LET distance == calculatePoseDistance(currentPose.keypoints,
                                               updatedTrackedPoses[index].keypoints)
         IN  IF ~DistanceLess(closestDistance, distance) /\ distance.valid > 0
                /\ DistanceLess(distance, Pixels(MatchThreshold))
             THEN ScanClosestLast(currentPose, updatedTrackedPoses, index + 1, distance, index)
             ELSE ScanClosestLast(currentPose, updatedTrackedPoses, index + 1,
                                  closestDistance, closestPoseIndex)

\* The inner forEach: the index of the tracked pose closest to the
\* candidate among those closer than the threshold, 0 when there is none.
RECURSIVE ScanClosest(_, _, _, _, _)
ScanClosest(currentPose, updatedTrackedPoses, index, closestDistance, closestPoseIndex) ==
    IF index > Len(updatedTrackedPoses)
    THEN [closestDistance |-> closestDistance, closestPoseIndex |-> closestPoseIndex]
    ELSE LET distance == calculatePoseDistance(currentPose.keypoints,
                                               updatedTrackedPoses[index].keypoints)
         IN  IF DistanceLess(distance, closestDistance)
             THEN ScanClosest(currentPose, updatedTrackedPoses, index + 1, distance, index)
             ELSE ScanClosest(currentPose, updatedTrackedPoses, index + 1,
                              closestDistance, closestPoseIndex)

\* UpdatedPose with a slip: the update also draws a new hue.
UpdatedPoseNewHue(tracked, currentPose, now) ==
    [tracked EXCEPT !.keypoints = currentPose.keypoints, !.lastSeen = now,
                    !.hue = (@ + 1) % 360]

\* UpdatedPose with a slip: the joints the candidate lacks are kept from
\* the previous keypoints.
UpdatedPoseMerged(tracked, currentPose, now) ==
    LET Missing(kp) == FindKeypoint(currentPose.keypoints, kp.name) = 0
    IN  [tracked EXCEPT !.keypoints = currentPose.keypoints \o SelectSeq(@, Missing),
                        !.lastSeen = now]

\* { ...tracked, keypoints: currentPose.keypoints, lastSeen: now }
UpdatedPose(tracked, currentPose, now) ==
    [tracked EXCEPT !.keypoints = currentPose.keypoints, !.lastSeen = now]

\* NewPose with a slip: the new pose is not stamped with the cycle's now.
NewPoseUnstamped(currentPose, now, random, uid) ==
    [id |-> random.id, keypoints |-> currentPose.keypoints, lastSeen |-> 0,
     hue |-> random.hue, uid |-> uid]

NewPose(currentPose, now, random, uid) ==
    [id |-> random.id, keypoints |-> currentPose.keypoints, lastSeen |-> now,
     hue |-> random.hue, uid |-> uid]

\* isTooClose with a slip: the acquisition threshold in place of the
\* duplicate-suppression threshold.
isTooCloseTight(currentPose, updatedTrackedPoses) ==
    \E i \in 1..Len(updatedTrackedPoses) :
        DistanceLess(calculatePoseDistance(currentPose.keypoints,
                                           updatedTrackedPoses[i].keypoints),
                     Pixels(MatchThreshold))

isTooClose(currentPose, updatedTrackedPoses) ==
    \E i \in 1..Len(updatedTrackedPoses) :
        DistanceLess(calculatePoseDistance(currentPose.keypoints,
                                           updatedTrackedPoses[i].keypoints),
                     Pixels(TooCloseThreshold))

\* CanSpawn with a slip: the candidate gate's count (7) in place of the
\* spawn count (8).
CanSpawnSevenKeypoints(currentPose, updatedTrackedPoses) ==
    /\ ~isTooClose(currentPose, updatedTrackedPoses)
    /\ Len(currentPose.keypoints) >= MinCandidateKeypoints

\* CanSpawn with a slip: no duplicate suppression (as in the component's
\* other variant).
CanSpawnUnsuppressed(currentPose, updatedTrackedPoses) ==
    Len(currentPose.keypoints) >= MinSpawnKeypoints

CanSpawn(currentPose, updatedTrackedPoses) ==
    /\ ~isTooClose(currentPose, updatedTrackedPoses)
    /\ Len(currentPose.keypoints) >= MinSpawnKeypoints

\* MatchOne with a slip: the acceptance test uses half the threshold the
\* scan started from.
MatchOneTight(updatedTrackedPoses, currentPose, now, random, uid) ==
    LET scan == ScanClosest(currentPose, updatedTrackedPoses, 1,
                            Pixels(MatchThreshold), 0)
    IN  IF scan.closestPoseIndex # 0
           /\ DistanceLess(scan.closestDistance, Pixels(MatchThreshold \div 2))
        THEN [poses |-> [updatedTrackedPoses EXCEPT ![scan.closestPoseIndex] =
                            UpdatedPose(@, currentPose, now)],
              outcome |-> "update", index |-> scan.closestPoseIndex]
        ELSE IF CanSpawn(currentPose, updatedTrackedPoses)
        THEN [poses |-> Append(updatedTrackedPoses,
                               NewPose(currentPose, now, random, uid)),
              outcome |-> "spawn", index |-> Len(updatedTrackedPoses) + 1]
        ELSE [poses |-> updatedTrackedPoses, outcome |-> "discard", index |-> 0]

\* The body of currentPoses.forEach for one candidate: the tracked poses
\* after it, and what it did (history).
MatchOne(updatedTrackedPoses, currentPose, now, random, uid) ==
    LET scan == ScanClosest(currentPose, updatedTrackedPoses, 1,
                            Pixels(MatchThreshold), 0)
    IN  IF scan.closestPoseIndex # 0
           /\ DistanceLess(scan.closestDistance, Pixels(MatchThreshold))
        THEN [poses |-> [updatedTrackedPoses EXCEPT ![scan.closestPoseIndex] =
                            UpdatedPose(@, currentPose, now)],
              outcome |-> "update", index |-> scan.closestPoseIndex]
        ELSE IF CanSpawn(currentPose, updatedTrackedPoses)
        THEN [poses |-> Append(updatedTrackedPoses,
                               NewPose(currentPose, now, random, uid)),
              outcome |-> "spawn", index |-> Len(updatedTrackedPoses) + 1]
        ELSE [poses |-> updatedTrackedPoses, outcome |-> "discard", index |-> 0]

\* currentPoses.forEach over the candidates from position k on.  steps is
\* the history of the loop: per candidate the tracked poses before and
\* after it and what it did.
RECURSIVE MatchAll(_, _, _, _, _, _, _)
MatchAll(updatedTrackedPoses, currentPoses, k, now, randoms, uid, steps) ==
    IF k > Len(currentPoses)
    THEN [poses |-> updatedTrackedPoses, steps |-> steps, uid |-> uid]
    ELSE LET r == MatchOne(updatedTrackedPoses, currentPoses[k], now, randoms[k], uid + 1)
         IN  MatchAll(r.poses, currentPoses, k + 1, now, randoms,
                      IF r.outcome = "spawn" THEN uid + 1 ELSE uid,
                      Append(steps, [candidate |-> currentPoses[k],
                                     before |-> updatedTrackedPoses,
                                     after |-> r.poses,
                                     outcome |-> r.outcome,
                                     index |-> r.index]))

\* NotStale with the window of the component's other variant (3 s).
NotStaleLate(pose, now) == now - pose.lastSeen < 2 * StaleAfter

NotStale(pose, now) == now - pose.lastSeen < StaleAfter
\* KeepsKeypoints with a slip: the spawn count (8) in place of 7.
KeepsKeypointsEight(pose) == Len(pose.keypoints) >= MinSpawnKeypoints

KeepsKeypoints(pose) == Len(pose.keypoints) >= MinTrackedKeypoints

\* FilterPoses with a slip: a pose the cycle did not match loses its last
\* keypoint as it ages.
FilterPosesDecaying(updatedTrackedPoses, now) ==
    LET Fresh(pose) == NotStale(pose, now)
        kept == SelectSeq(SelectSeq(updatedTrackedPoses, Fresh), KeepsKeypoints)
    IN  [i \in 1..Len(kept) |->
            IF kept[i].lastSeen < now
            THEN [kept[i] EXCEPT !.keypoints = SubSeq(@, 1, Len(@) - 1)]
            ELSE kept[i]]

\* updatedTrackedPoses.filter(...).filter(...)
FilterPoses(updatedTrackedPoses, now) ==
    LET Fresh(pose) == NotStale(pose, now)
    IN  SelectSeq(SelectSeq(updatedTrackedPoses, Fresh), KeepsKeypoints)

\* The reconcile block of detectPose: from the trackedPoses the closure
\* holds and the detector's poses to filteredPoses.
Reconcile(tracked, poses, canvas, now, randoms, uid) ==
    LET currentPoses == Normalize(poses, canvas)
        matched == MatchAll(tracked, currentPoses, 1, now, randoms, uid, <<>>)
    IN  [currentPoses |-> currentPoses,
         updatedTrackedPoses |-> matched.poses,
         steps |-> matched.steps,
         uid |-> matched.uid,
         filteredPoses |-> FilterPoses(matched.poses, now)]

(***************************************************************************)
(* What the environment can supply.                                        *)
(***************************************************************************)
\* Date.now() is read when a detection settles.  Since the previous
\* reading no time has passed or a step has: a staleness window in the
\* component's life cycle, half of it where the tracker is examined alone.
ClockStep == StaleAfter
TrackerClockStep == StaleAfter \div 2
Readings(step, maxSteps) == {t \in {clock, clock + step} : t <= maxSteps * step}

DefaultCanvas == [width |-> DefaultCanvasWidth, height |-> DefaultCanvasHeight]
\* The sizes a window resize leaves the container with in the life cycle.
LoopCanvasSizes == {DefaultCanvas}

\* The detector's answers in the component's life cycle: nobody, one
\* person, or the same person reported twice a few pixels apart.
LoopDetections ==
    {<<>>, <<RawPose(300, 100, FullBody)>>,
     <<RawPose(300, 100, FullBody), RawPose(310, 100, FullBody)>>}
\* Math.random(): the ids and hues the new tracked poses of one cycle are
\* given, the first and the second spawn of the cycle.  Ids can collide.
RandomDraws ==
    {<<[id |-> "a", hue |-> 0], [id |-> "b", hue |-> 180]>>,
     <<[id |-> "b", hue |-> 180], [id |-> "b", hue |-> 180]>>}

(***************************************************************************)
(* The detection-loop effect.  Every run of the effect is an instance with *)
(* its own isDetecting, frameCount and animationFrameId and with the       *)
(* values of the render it closed over.  Two history fields follow what    *)
(* its runs of detectPose did: estimates counts its calls of               *)
(* detector.estimatePoses, painted says that the tracked poses have been   *)
(* drawn since the run last cleared the canvas.                            *)
(***************************************************************************)
FreeLoop ==
    [state |-> "free", trackedPoses |-> <<>>, detector |-> "none",
     isVideoReady |-> FALSE, isLoading |-> FALSE,
     isDetecting |-> FALSE, frameCount |-> 0,
     scheduled |-> FALSE, inFlight |-> FALSE, cleaned |-> FALSE,
     estimates |-> 0, painted |-> FALSE]

\* trackedPoses.forEach(pose => blob.limbs / blob.eyes): the poses drawn are
\* the trackedPoses of the render the instance closed over.
DrawTrackedPoses(loop) == [loop EXCEPT !.painted = TRUE]
DrawnPoses(loop) == loop.trackedPoses

\* detectPose with a slip: the guard does not look at isVideoReady.
detectPoseVideoUnchecked(loop, refs) ==
    IF \/ loop.detector = "none" \/ ~refs
       \/ loop.isDetecting \/ loop.isLoading
    THEN [loop EXCEPT !.scheduled = TRUE]
    ELSE IF (loop.frameCount + 1) % poseDetectionInterval = 0
    THEN [loop EXCEPT !.isDetecting = TRUE, !.frameCount = @ + 1,
                      !.inFlight = TRUE, !.estimates = @ + 1,
                      !.painted = FALSE]
    ELSE DrawTrackedPoses([loop EXCEPT !.isDetecting = FALSE,
                                       !.frameCount = @ + 1,
                                       !.scheduled = TRUE])

\* detectPose with a slip: the guard does not look at the detector.
detectPoseDetectorUnchecked(loop, refs) ==
    IF \/ ~refs \/ ~loop.isVideoReady
       \/ loop.isDetecting \/ loop.isLoading
    THEN [loop EXCEPT !.scheduled = TRUE]
    ELSE IF (loop.frameCount + 1) % poseDetectionInterval = 0
    THEN [loop EXCEPT !.isDetecting = TRUE, !.frameCount = @ + 1,
                      !.inFlight = TRUE, !.estimates = @ + 1,
                      !.painted = FALSE]
    ELSE DrawTrackedPoses([loop EXCEPT !.isDetecting = FALSE,
                                       !.frameCount = @ + 1,
                                       !.scheduled = TRUE])

\* detectPose with a slip: the next frame is requested before the detector
\* is awaited.
detectPoseEagerFrame(loop, refs) ==
    IF \/ loop.detector = "none" \/ ~refs \/ ~loop.isVideoReady
       \/ loop.isDetecting \/ loop.isLoading
    THEN [loop EXCEPT !.scheduled = TRUE]
    ELSE IF (loop.frameCount + 1) % poseDetectionInterval = 0
    THEN [loop EXCEPT !.isDetecting = TRUE, !.frameCount = @ + 1,
                      !.inFlight = TRUE, !.estimates = @ + 1,
                      !.painted = FALSE, !.scheduled = TRUE]
    ELSE DrawTrackedPoses([loop EXCEPT !.isDetecting = FALSE,
                                       !.frameCount = @ + 1,
                                       !.scheduled = TRUE])

\* One call of detectPose up to its first await or its return.  The refs
\* (videoRef.current, canvasRef.current) are set while mounted.  Past the
\* guard the run clears the canvas; off a detection frame it draws the
\* tracked poses, clears isDetecting and requests the next frame at once.
detectPose(loop, refs) ==
    IF \/ loop.detector = "none" \/ ~refs \/ ~loop.isVideoReady
       \/ loop.isDetecting \/ loop.isLoading
    THEN [loop EXCEPT !.scheduled = TRUE]
    ELSE IF (loop.frameCount + 1) % poseDetectionInterval = 0
    THEN [loop EXCEPT !.isDetecting = TRUE, !.frameCount = @ + 1,
                      !.inFlight = TRUE, !.estimates = @ + 1,
                      !.painted = FALSE]
    ELSE DrawTrackedPoses([loop EXCEPT !.isDetecting = FALSE,
                                       !.frameCount = @ + 1,
                                       !.scheduled = TRUE])

\* The end of detectPose after the await: isDetecting = false and
\* requestAnimationFrame(detectPose).
Settled(loop) ==
    [loop EXCEPT !.isDetecting = FALSE, !.inFlight = FALSE, !.scheduled = TRUE]

\* The effect's cleanup: cancelAnimationFrame(animationFrameId).  It
\* cancels a callback that is pending; a detector call in flight goes on.
Cleanup(loop) ==
    IF loop.inFlight
    THEN [loop EXCEPT !.cleaned = TRUE, !.scheduled = FALSE]
    ELSE FreeLoop

\* The effect's body for a new render: a fresh instance that calls
\* detectPose() once.
StartLoop(tracked, det, ready, loading) ==
    detectPose([FreeLoop EXCEPT !.state = "live", !.trackedPoses = tracked,
                                !.detector = det, !.isVideoReady = ready,
                                !.isLoading = loading], TRUE)

FreeSlots(ls) == {i \in 1..MaxLoops : ls[i].state = "free"}

\* A re-render with a changed dependency: React runs the cleanup of the
\* current instance and then the effect again.  ls is loops as the
\* handler that set the state left it.
CanRestart(ls) == FreeSlots([ls EXCEPT ![current] = Cleanup(@)]) # {}
Restart(ls, tracked, det, ready, loading) ==
    LET cleaned == [ls EXCEPT ![current] = Cleanup(@)]
        slot == Min(FreeSlots(cleaned))
    IN  /\ loops' = [cleaned EXCEPT ![slot] = StartLoop(tracked, det, ready, loading)]
        /\ current' = slot

(***************************************************************************)
(* The mode-switching variant of the component.  Its state, the runs of    *)
(* its async functions and the instances of its loop effect are gathered   *)
(* in a record (a world) that the handlers transform; every setState is    *)
(* followed by the render and the effects whose dependencies changed.      *)
(***************************************************************************)
World ==
    [multiPoseMode |-> multiPoseMode, isChangingMode |-> isChangingMode,
     modeDetector |-> modeDetector, modeVideoReady |-> modeVideoReady,
     detectors |-> detectors, creating |-> creating,
     initializing |-> initializing, modeLoops |-> modeLoops,
     modeCurrent |-> modeCurrent, createCalls |-> createCalls,
     toggles |-> toggles, calledDisposed |-> calledDisposed, fits |-> TRUE]

\* The values a render reads, which the callbacks and effects of that
\* render close over.
Rendered(w) ==
    [detector |-> w.modeDetector, multiPoseMode |-> w.multiPoseMode,
     isChangingMode |-> w.isChangingMode, isVideoReady |-> w.modeVideoReady]

RemoveAt(seq, k) == SubSeq(seq, 1, k - 1) \o SubSeq(seq, k + 1, Len(seq))

\* createDetector of a render whose detector is det, up to its first
\* await: setIsChangingMode(true); with a detector, detector.dispose() is
\* called and awaited; without, poseDetection.createDetector is.
createDetector(w, det, multi) ==
    [w EXCEPT !.createCalls = @ + 1,
              !.fits = @ /\ w.createCalls < MaxCreateCalls,
              !.isChangingMode = TRUE,
              !.detectors = IF det # 0 THEN [@ EXCEPT ![det].disposed = TRUE] ELSE @,
              !.creating = Append(@, [detector |-> det, multiPoseMode |-> multi,
                                      pc |-> IF det # 0 THEN "dispose" ELSE "create"])]

FreeModeLoop ==
    [state |-> "free", detector |-> 0, isChangingMode |-> FALSE,
     isVideoReady |-> FALSE, isDetecting |-> FALSE, scheduled |-> FALSE,
     inFlight |-> 0, cleaned |-> FALSE]

\* The guard of the variant's detectPose lets the run through.
PassesGuard(loop) ==
    ~(\/ loop.isChangingMode \/ loop.detector = 0
      \/ ~loop.isVideoReady \/ loop.isDetecting)

\* One call of the variant's detectPose up to its await or its return:
\* behind the guard it requests the next frame, past it it calls
\* detector.estimatePoses(video) on the detector of its render.
modeDetectPose(loop) ==
    IF PassesGuard(loop)
    THEN [loop EXCEPT !.isDetecting = TRUE, !.inFlight = loop.detector]
    ELSE [loop EXCEPT !.scheduled = TRUE]

\* The end of the variant's detectPose, after the await resolved or the
\* catch logged: isDetecting = false and requestAnimationFrame(detectPose).
ModeSettled(loop) ==
    [loop EXCEPT !.isDetecting = FALSE, !.inFlight = 0, !.scheduled = TRUE]

\* The loop effect's cleanup: cancelAnimationFrame(animationFrameId).
ModeCleanup(loop) ==
    IF loop.inFlight # 0
    THEN [loop EXCEPT !.cleaned = TRUE, !.scheduled = FALSE]
    ELSE FreeModeLoop

\* A run of detectPose of an instance, with the history of calls on
\* disposed detectors.
RunDetectPose(w, i) ==
    LET loop == [w.modeLoops[i] EXCEPT !.scheduled = FALSE]
    IN  [w EXCEPT !.modeLoops[i] = modeDetectPose(loop),
                  !.calledDisposed =
                      @ \/ (PassesGuard(loop) /\ w.detectors[loop.detector].disposed)]

\* The loop effect runs again: the cleanup of the current instance, then
\* a new instance of the render cur, which calls detectPose() at once.
RestartModeLoop(w, cur) ==
    LET cleaned == [w.modeLoops EXCEPT ![w.modeCurrent] = ModeCleanup(@)]
        free == {i \in 1..MaxLoops : cleaned[i].state = "free"}
        slot == IF free = {} THEN w.modeCurrent ELSE Min(free)
        fresh == [FreeModeLoop EXCEPT !.state = "live",
                                      !.detector = cur.detector,
                                      !.isChangingMode = cur.isChangingMode,
                                      !.isVideoReady = cur.isVideoReady]
    IN  RunDetectPose([w EXCEPT !.modeLoops = [cleaned EXCEPT ![slot] = fresh],
                                !.modeCurrent = slot,
                                !.fits = @ /\ free # {}], slot)

\* The effects of the render cur that follows the render prev, in the
\* order the component declares them: the initializeTF effect (dependency
\* createDetector, which is new when multiPoseMode or detector is), the
\* mode effect, the loop effect.
Effects(prev, cur, w) ==
    LET newCreateDetector == \/ cur.detector # prev.detector
                             \/ cur.multiPoseMode # prev.multiPoseMode
        modeDeps == newCreateDetector \/ cur.isChangingMode # prev.isChangingMode
        loopDeps == modeDeps \/ cur.isVideoReady # prev.isVideoReady
        w1 == IF newCreateDetector
              THEN [w EXCEPT !.initializing =
                        Append(@, [detector |-> cur.detector,
                                   multiPoseMode |-> cur.multiPoseMode])]
              ELSE w
        w2 == IF modeDeps /\ ~cur.isChangingMode /\ cur.detector # 0
              THEN createDetector(w1, cur.detector, cur.multiPoseMode)
              ELSE w1
    IN  IF loopDeps THEN RestartModeLoop(w2, cur) ELSE w2

\* React after a handler changed the state: render, run the effects, and
\* render again when an effect changed the state in turn.
RECURSIVE Commit(_, _)
Commit(prev, w) ==
    LET cur == Rendered(w)
    IN  IF cur = prev THEN w ELSE Commit(cur, Effects(prev, cur, w))

\* The first render: every effect runs.
MountMode ==
    LET blank == [multiPoseMode |-> FALSE, isChangingMode |-> FALSE,
                  modeDetector |-> 0, modeVideoReady |-> FALSE,
                  detectors |-> <<>>, creating |-> <<>>,
                  initializing |-> <<[detector |-> 0, multiPoseMode |-> FALSE]>>,
                  modeLoops |-> [i \in 1..MaxLoops |-> FreeModeLoop],
                  modeCurrent |-> 1, createCalls |-> 0, toggles |-> 0,
                  calledDisposed |-> FALSE, fits |-> TRUE]
    IN  RestartModeLoop(blank, Rendered(blank))

\* The variant's variables take the values of a world.
Is(w) ==
    /\ multiPoseMode = w.multiPoseMode
    /\ isChangingMode = w.isChangingMode
    /\ modeDetector = w.modeDetector
    /\ modeVideoReady = w.modeVideoReady
    /\ detectors = w.detectors
    /\ creating = w.creating
    /\ initializing = w.initializing
    /\ modeLoops = w.modeLoops
    /\ modeCurrent = w.modeCurrent
    /\ createCalls = w.createCalls
    /\ toggles = w.toggles
    /\ calledDisposed = w.calledDisposed
Becomes(w) ==
    /\ w.fits
    /\ multiPoseMode' = w.multiPoseMode
    /\ isChangingMode' = w.isChangingMode
    /\ modeDetector' = w.modeDetector
    /\ modeVideoReady' = w.modeVideoReady
    /\ detectors' = w.detectors
    /\ creating' = w.creating
    /\ initializing' = w.initializing
    /\ modeLoops' = w.modeLoops
    /\ modeCurrent' = w.modeCurrent
    /\ createCalls' = w.createCalls
    /\ toggles' = w.toggles
    /\ calledDisposed' = w.calledDisposed
    /\ UNCHANGED <<trackerVars, setupVars, loopVars, appVars>>

\* initializeTF: tf.ready() and tf.setBackend have resolved (or one has
\* thrown, which ends the run in the catch); if (!detector), with the
\* detector of the run's render, await createDetector().
InitializeTFSettles(k, ready) ==
    /\ k \in 1..Len(initializing)
    /\ LET run == initializing[k]
           w == [World EXCEPT !.initializing = RemoveAt(@, k)]
       IN  IF ready /\ run.detector = 0
           THEN Becomes(Commit(Rendered(World),
                               createDetector(w, run.detector, run.multiPoseMode)))
           ELSE Becomes(w)

\* createDetector: await detector.dispose() has resolved:
\* setDetector(null), then poseDetection.createDetector is called.
DisposeResolves(k) ==
    /\ k \in 1..Len(creating)
    /\ creating[k].pc = "dispose"
    /\ Becomes(Commit(Rendered(World),
                      [World EXCEPT !.modeDetector = 0,
                                    !.creating[k].pc = "create"]))

\* createDetector: poseDetection.createDetector has resolved:
\* setDetector(newDetector) and, in the finally, setIsChangingMode(false).
\* React renders once for both (batched) or after each.
CreateResolves(k, batched) ==
    /\ k \in 1..Len(creating)
    /\ creating[k].pc = "create"
    /\ LET made == [World EXCEPT
                       !.detectors = Append(@, [multiPoseMode |-> creating[k].multiPoseMode,
                                                disposed |-> FALSE]),
                       !.modeDetector = Len(detectors) + 1,
                       !.creating = RemoveAt(@, k)]
           first == IF batched THEN made ELSE Commit(Rendered(World), made)
           prev == IF batched THEN Rendered(World) ELSE Rendered(first)
       IN  Becomes(Commit(prev, [first EXCEPT !.isChangingMode = FALSE]))

\* createDetector: an awaited call has rejected: the catch logs, the
\* finally's setIsChangingMode(false).
CreateRejects(k) ==
    /\ k \in 1..Len(creating)
    /\ Becomes(Commit(Rendered(World),
                      [World EXCEPT !.creating = RemoveAt(@, k),
                                    !.isChangingMode = FALSE]))

\* toggleMultiPoseMode: if (!isChangingMode) setMultiPoseMode(prev => !prev).
toggleMultiPoseMode ==
    /\ ~isChangingMode
    /\ toggles < MaxToggles
    /\ Becomes(Commit(Rendered(World),
                      [World EXCEPT !.multiPoseMode = ~@, !.toggles = @ + 1]))

\* The variant's video.onloadedmetadata: setIsVideoReady(true).
ModeLoadedMetadata ==
    /\ ~modeVideoReady
    /\ Becomes(Commit(Rendered(World), [World EXCEPT !.modeVideoReady = TRUE]))

\* The animation-frame callback of an instance of the variant's loop.
ModeTick(i) ==
    /\ modeLoops[i].state = "live"
    /\ modeLoops[i].scheduled
    /\ Becomes(RunDetectPose(World, i))

\* detector.estimatePoses of an instance of the variant's loop settles.
EstimateSettles(i) ==
    /\ modeLoops[i].state = "live"
    /\ modeLoops[i].inFlight # 0
    /\ Becomes([World EXCEPT !.modeLoops[i] = ModeSettled(@)])

NextMode ==
    \/ \E k \in 1..(2 * MaxCreateCalls + MaxToggles + 1), ready \in BOOLEAN :
          InitializeTFSettles(k, ready)
    \/ \E k \in 1..MaxCreateCalls : DisposeResolves(k)
    \/ \E k \in 1..MaxCreateCalls, batched \in BOOLEAN : CreateResolves(k, batched)
    \/ \E k \in 1..MaxCreateCalls : CreateRejects(k)
    \/ toggleMultiPoseMode
    \/ ModeLoadedMetadata
    \/ \E i \in 1..MaxLoops : ModeTick(i)
    \/ \E i \in 1..MaxLoops : EstimateSettles(i)

(***************************************************************************)
(* App: the console override that captures the log lines.  A console       *)
(* argument is a string, a plain object or an object JSON.stringify cannot *)
(* serialise (a cycle); a captured entry is its prefix and the texts of    *)
(* its arguments, which join(' ') puts in a row.                           *)
(***************************************************************************)
StringArg(n) == [type |-> "string", value |-> n]
ObjectArg(n) == [type |-> "object", value |-> n]
CyclicArg == [type |-> "object", value |-> -1]
Serialisable(arg) == arg # CyclicArg

\* typeof arg === 'object' ? JSON.stringify(arg) : String(arg)
ArgText(arg) ==
    IF arg.type = "object"
    THEN [json |-> TRUE, value |-> arg.value]
    ELSE [json |-> FALSE, value |-> arg.value]

Prefix(level) ==
    IF level = "warn" THEN "warning sign "
    ELSE IF level = "error" THEN "red circle "
    ELSE ""

\* The template string of the three overrides.
Entry(level, args) ==
    [prefix |-> Prefix(level), text |-> [i \in 1..Len(args) |-> ArgText(args[i])]]

\* slice with a slip: slice(0, 100), which keeps the oldest entries.
SliceOldest(list, n) ==
    IF Len(list) <= n THEN list ELSE SubSeq(list, 1, n)

\* list.slice(-n)
SliceLast(list, n) ==
    IF Len(list) <= n THEN list ELSE SubSeq(list, Len(list) - n + 1, Len(list))

\* setLogs(prev => [...prev, entry].slice(-100))
setLogs(prev, entry) == SliceLast(Append(prev, entry), LogLimit)

\* What the n-th console call of a run can be: the component's messages
\* are plain console.log lines but for the first calls and the calls past
\* the limit, which are of every kind.
ConsoleCalls(n) ==
    IF n <= MaxVariedCalls \/ n > LogLimit
    THEN {[level |-> "log", args |-> <<StringArg(n)>>],
          [level |-> "warn", args |-> <<StringArg(n)>>],
          [level |-> "error", args |-> <<StringArg(n), ObjectArg(n)>>],
          [level |-> "log", args |-> <<StringArg(n), CyclicArg>>]}
    ELSE {[level |-> "log", args |-> <<StringArg(n)>>]}

\* console.log / console.warn / console.error while App is mounted: the
\* original method prints, then the entry is built and handed to setLogs.
\* JSON.stringify throws on a cycle: the call ends there and captures
\* nothing.
ConsoleCall(call) ==
    /\ consoleCalls < MaxLogCalls
    /\ consoleCalls' = consoleCalls + 1
    /\ IF \A i \in 1..Len(call.args) : Serialisable(call.args[i])
       THEN /\ logs' = setLogs(logs, Entry(call.level, call.args))
            /\ captured' = Append(captured, Entry(call.level, call.args))
       ELSE UNCHANGED <<logs, captured>>
    /\ UNCHANGED <<trackerVars, setupVars, loopVars, modeVars>>

NextApp == \E call \in ConsoleCalls(consoleCalls + 1) : ConsoleCall(call)

NoCycle == [kind |-> "none"]

Init ==
    /\ trackedPoses = <<>>
    /\ clock = 0
    /\ spawnCount = 0
    /\ lastCycle = NoCycle
    /\ mounted = TRUE
    /\ detector = "none"
    /\ isLoading = TRUE
    /\ isVideoReady = FALSE
    /\ canvasSize = DefaultCanvas
    /\ tfSetup = "loading"
    /\ disposed = FALSE
    /\ camera = "pending"
    /\ srcObject = FALSE
    /\ tracksStopped = FALSE
    /\ loops = [i \in 1..MaxLoops |->
                  IF i = 1 THEN StartLoop(<<>>, "none", FALSE, TRUE) ELSE FreeLoop]
    /\ current = 1
    /\ Is(MountMode)
    /\ logs = <<>>
    /\ captured = <<>>
    /\ consoleCalls = 0

(***************************************************************************)
(* State setters.  A setter that changes a dependency of the loop effect   *)
(* makes React render again and restart the effect before the next         *)
(* animation frame; after the unmount a setter does nothing.               *)
(***************************************************************************)
\* setTrackedPoses(filteredPoses): always a new array, so always a restart.
SetTrackedPoses(ls, filteredPoses) ==
    IF mounted
    THEN /\ CanRestart(ls)
         /\ trackedPoses' = filteredPoses
         /\ Restart(ls, filteredPoses, detector, isVideoReady, isLoading)
    ELSE /\ loops' = ls
         /\ UNCHANGED <<trackedPoses, current>>

(***************************************************************************)
(* The detection loop's steps.                                             *)
(***************************************************************************)
\* The animation-frame callback of instance i fires: detectPose runs to
\* its return or to the await of detector.estimatePoses.
Tick(i) ==
    /\ loops[i].state = "live"
    /\ loops[i].scheduled
    /\ loops[i].frameCount < MaxFrameCount
    /\ loops' = [loops EXCEPT ![i] = detectPose([@ EXCEPT !.scheduled = FALSE], mounted)]
    /\ UNCHANGED <<trackerVars, setupVars, mounted, canvasSize, current>>
    /\ UNCHANGED <<modeVars, appVars>>

\* detector.estimatePoses of instance i resolves with poses: normalise,
\* reconcile against the closure's trackedPoses, setTrackedPoses, draw,
\* clear isDetecting and request the next frame.  The history keeps what
\* was drawn and how the run left the instance (left), before React
\* renders again.
DetectorResolves(i, poses, randoms, now) ==
    /\ loops[i].state = "live"
    /\ loops[i].inFlight
    /\ clock' = now
    /\ \E r \in {Reconcile(loops[i].trackedPoses, poses, canvasSize, now,
                           randoms, spawnCount)} :
           /\ r.uid <= MaxSpawns
           /\ spawnCount' = r.uid
           /\ lastCycle' = [kind |-> "reconcile", loop |-> i, now |-> now,
                            input |-> loops[i].trackedPoses,
                            state |-> trackedPoses,
                            result |-> r.filteredPoses,
                            after |-> IF mounted THEN r.filteredPoses
                                      ELSE trackedPoses,
                            drawn |-> DrawnPoses(loops[i]),
                            left |-> Settled(DrawTrackedPoses(loops[i]))]
           /\ SetTrackedPoses([loops EXCEPT ![i] = Settled(DrawTrackedPoses(@))],
                              r.filteredPoses)
    /\ UNCHANGED <<setupVars, mounted, canvasSize>>
    /\ UNCHANGED <<modeVars, appVars>>

\* DetectorRejects with a slip: the catch returns, leaving isDetecting set
\* and no frame requested.
DetectorRejectsStuck(i, now) ==
    /\ loops[i].state = "live"
    /\ loops[i].inFlight
    /\ clock' = now
    /\ loops' = [loops EXCEPT ![i].inFlight = FALSE]
    /\ lastCycle' = [kind |-> "rejected", loop |-> i, now |-> now,
                     input |-> loops[i].trackedPoses,
                     state |-> trackedPoses,
                     after |-> trackedPoses,
                     left |-> [loops[i] EXCEPT !.inFlight = FALSE]]
    /\ UNCHANGED <<trackedPoses, spawnCount, setupVars, mounted,
                   canvasSize, current>>
    /\ UNCHANGED <<modeVars, appVars>>

\* detector.estimatePoses of instance i rejects: the catch logs (the rest
\* of the try, the drawing included, is skipped), then isDetecting is
\* cleared and the next frame requested.
DetectorRejects(i, now) ==
    /\ loops[i].state = "live"
    /\ loops[i].inFlight
    /\ clock' = now
    /\ loops' = [loops EXCEPT ![i] = Settled(@)]
    /\ lastCycle' = [kind |-> "rejected", loop |-> i, now |-> now,
                     input |-> loops[i].trackedPoses,
                     state |-> trackedPoses,
                     after |-> trackedPoses,
                     left |-> Settled(loops[i])]
    /\ UNCHANGED <<trackedPoses, spawnCount, setupVars, mounted,
                   canvasSize, current>>
    /\ UNCHANGED <<modeVars, appVars>>

(***************************************************************************)
(* Model setup, camera setup and the events that restart the loop.         *)
(***************************************************************************)
\* setupTensorFlow reaches setDetector(newDetector), then the finally's
\* setIsLoading(false).
SetupSucceeds ==
    /\ tfSetup = "loading"
    /\ tfSetup' = "created"
    /\ IF mounted
       THEN /\ CanRestart(loops)
            /\ detector' = "movenet"
            /\ isLoading' = FALSE
            /\ Restart(loops, trackedPoses, "movenet", isVideoReady, FALSE)
       ELSE UNCHANGED <<detector, isLoading, loops, current>>
    /\ UNCHANGED <<trackerVars, isVideoReady, disposed, camera, srcObject,
                   tracksStopped, mounted, canvasSize>>
    /\ UNCHANGED <<modeVars, appVars>>

\* setupTensorFlow throws: the catch logs, the finally's setIsLoading(false).
SetupFails ==
    /\ tfSetup = "loading"
    /\ tfSetup' = "failed"
    /\ IF mounted /\ isLoading
       THEN /\ CanRestart(loops)
            /\ isLoading' = FALSE
            /\ Restart(loops, trackedPoses, detector, isVideoReady, FALSE)
       ELSE UNCHANGED <<isLoading, loops, current>>
    /\ UNCHANGED <<trackerVars, detector, isVideoReady, disposed, camera,
                   srcObject, tracksStopped, mounted, canvasSize>>
    /\ UNCHANGED <<modeVars, appVars>>

\* getUserMedia resolves: the stream goes to video.srcObject if the video
\* element is still there.
CameraResolves ==
    /\ camera = "pending"
    /\ camera' = "streaming"
    /\ srcObject' = mounted
    /\ UNCHANGED <<trackerVars, detector, isLoading, isVideoReady, tfSetup,
                   disposed, tracksStopped, loopVars>>
    /\ UNCHANGED <<modeVars, appVars>>

\* getUserMedia rejects: the catch logs and calls setIsLoading(false).
CameraRejects ==
    /\ camera = "pending"
    /\ camera' = "denied"
    /\ IF mounted /\ isLoading
       THEN /\ CanRestart(loops)
            /\ isLoading' = FALSE
            /\ Restart(loops, trackedPoses, detector, isVideoReady, FALSE)
       ELSE UNCHANGED <<isLoading, loops, current>>
    /\ UNCHANGED <<trackerVars, detector, isVideoReady, tfSetup, disposed,
                   srcObject, tracksStopped, mounted, canvasSize>>
    /\ UNCHANGED <<modeVars, appVars>>

\* video.onloadedmetadata: video.play() and setIsVideoReady(true).
LoadedMetadata ==
    /\ srcObject
    /\ ~isVideoReady
    /\ mounted
    /\ CanRestart(loops)
    /\ isVideoReady' = TRUE
    /\ Restart(loops, trackedPoses, detector, TRUE, isLoading)
    /\ UNCHANGED <<trackerVars, detector, isLoading, tfSetup, disposed,
                   camera, srcObject, tracksStopped, mounted, canvasSize>>
    /\ UNCHANGED <<modeVars, appVars>>

\* window resize: updateCanvasSize sets a new canvasSize object.
Resize(size) ==
    /\ mounted
    /\ CanRestart(loops)
    /\ canvasSize' = size
    /\ Restart(loops, trackedPoses, detector, isVideoReady, isLoading)
    /\ UNCHANGED <<trackerVars, setupVars, mounted>>
    /\ UNCHANGED <<modeVars, appVars>>

\* toggleDebugMode: debugMode and isDebugRendering change, which only the
\* drawing reads.
ToggleDebugMode ==
    /\ mounted
    /\ CanRestart(loops)
    /\ Restart(loops, trackedPoses, detector, isVideoReady, isLoading)
    /\ UNCHANGED <<trackerVars, setupVars, mounted, canvasSize>>
    /\ UNCHANGED <<modeVars, appVars>>

\* The component unmounts: React detaches the refs and runs the three
\* cleanups.  The model-setup effect ran with the first render's detector
\* (null) in its closure; the camera cleanup reads videoRef.current, which
\* refAtCleanup says is still the video element or already null.
SetupEffectDetector == "none"
Unmount(refAtCleanup) ==
    /\ mounted
    /\ mounted' = FALSE
    /\ loops' = [loops EXCEPT ![current] = Cleanup(@)]
    /\ tracksStopped' = (tracksStopped \/ (refAtCleanup /\ srcObject))
    /\ disposed' = (disposed \/ SetupEffectDetector # "none")
    /\ UNCHANGED <<trackerVars, detector, isLoading, isVideoReady, tfSetup,
                   camera, srcObject, canvasSize, current>>
    /\ UNCHANGED <<modeVars, appVars>>

Next ==
    \/ \E i \in 1..MaxLoops : Tick(i)
    \/ \E i \in 1..MaxLoops, poses \in LoopDetections, randoms \in RandomDraws,
          now \in Readings(ClockStep, MaxClockSteps) :
          DetectorResolves(i, poses, randoms, now)
    \/ \E i \in 1..MaxLoops, now \in Readings(ClockStep, MaxClockSteps) : DetectorRejects(i, now)
    \/ SetupSucceeds
    \/ SetupFails
    \/ CameraResolves
    \/ CameraRejects
    \/ LoadedMetadata
    \/ \E size \in LoopCanvasSizes : Resize(size)
    \/ ToggleDebugMode
    \/ \E refAtCleanup \in BOOLEAN : Unmount(refAtCleanup)

Spec == Init /\ [][Next]_vars

(***************************************************************************)
(* The tracker alone: detection cycles of one loop instance after the      *)
(* other, each starting from the set the previous one wrote, over a wider  *)
(* range of detector answers than the life cycle above.                    *)
(***************************************************************************)
\* One person standing at x = 300, the same person 30 px to either side,
\* reported whole or with some reference joints unsure, and a second
\* person 200 px away.
TrackerDetections ==
    {<<>>,
     <<RawPose(300, 100, FullBody)>>,
     <<RawPose(330, 100, FullBody)>>,
     <<RawPose(300, 100, FullBody), RawPose(500, 100, FullBody)>>,
     <<RawPose(300, 100, FullBody), RawPose(310, 100, FullBody)>>,
     <<RawPose(330, 100, FullBody), RawPose(270, 100, FullBody)>>,
     <<RawPose(330, 100, NoseNoShoulders), RawPose(270, 100, ShouldersNoNose)>>}

\* A detection cycle on its own: what DetectorResolves does to the
\* tracked-pose set, with the history of every candidate's step.
TrackerCycle(poses, randoms, now) ==
    /\ clock' = now
    /\ \E r \in {Reconcile(trackedPoses, poses, canvasSize, now, randoms, spawnCount)} :
           /\ r.uid <= MaxSpawns
           /\ spawnCount' = r.uid
           /\ trackedPoses' = r.filteredPoses
           /\ lastCycle' = [kind |-> "reconcile", now |-> now,
                            poses |-> poses,
                            steps |-> r.steps,
                            result |-> r.filteredPoses]
    /\ UNCHANGED <<setupVars, loopVars>>
    /\ UNCHANGED <<modeVars, appVars>>

NextTracker ==
    \E poses \in TrackerDetections, randoms \in RandomDraws,
       now \in Readings(TrackerClockStep, MaxTrackerClockSteps) :
        TrackerCycle(poses, randoms, now)

SpecTracker == Init /\ [][NextTracker]_vars

(***************************************************************************)
(* The tracker's spawn and duplicate-suppression rules: cycles in which a  *)
(* candidate stands between the two thresholds from the tracked pose, or   *)
(* has the fewest keypoints the quality gate lets through.                 *)
(***************************************************************************)
\* One person at x = 300, reported whole or with the upper body only; the
\* same person 30 px to one side together with a detection 30 px or 80 px
\* to the other side.
SpawnDetections ==
    {<<>>,
     <<RawPose(300, 100, FullBody)>>,
     <<RawPose(300, 100, UpperBody)>>,
     <<RawPose(330, 100, FullBody), RawPose(270, 100, FullBody)>>,
     <<RawPose(330, 100, FullBody), RawPose(220, 100, FullBody)>>}

NextSpawn ==
    \E poses \in SpawnDetections, randoms \in RandomDraws,
       now \in Readings(TrackerClockStep, MaxTrackerClockSteps) :
        TrackerCycle(poses, randoms, now)

SpecSpawn == Init /\ [][NextSpawn]_vars

(***************************************************************************)
(* The tracker's choice among several tracked poses: two people 60 px      *)
(* apart, each seen without the reference joints the other is seen with,   *)
(* and then one person between them, or a body with no reference joint.    *)
(***************************************************************************)
MatchDetections ==
    {<<>>,
     <<RawPose(330, 100, NoseNoShoulders), RawPose(270, 100, ShouldersNoNose)>>,
     <<RawPose(300, 100, FullBody)>>,
     <<RawPose(295, 100, FullBody)>>,
     <<RawPose(300, 100, NoReference)>>}

NextMatch ==
    \E poses \in MatchDetections, randoms \in RandomDraws,
       now \in Readings(TrackerClockStep, MaxTrackerClockSteps) :
        TrackerCycle(poses, randoms, now)

SpecMatch == Init /\ [][NextMatch]_vars

(***************************************************************************)
(* The keypoint normaliser alone: the filter/map/filter chain applied to   *)
(* detector answers of every quality, on canvases of two sizes.            *)
(***************************************************************************)
\* The container is as large as the video or twice as large.
NormalizerCanvasSizes ==
    {DefaultCanvas,
     [width |-> 2 * DefaultCanvasWidth, height |-> 2 * DefaultCanvasHeight]}

\* A person at the left edge, in the middle or at the right edge of the
\* video frame (a wrist on the edge itself), seen with every score profile.
NormalizerPoses ==
    {RawPose(noseX, 100, scores) :
        noseX \in {45, 300, VideoWidth - 45},
        scores \in {FullBody, UpperBody, SixJoints, Faint, Borderline}}

\* The detector returns at most maxPoses poses.
NormalizerDetections ==
    {<<>>} \cup {<<p>> : p \in NormalizerPoses}
           \cup {<<p, q>> : p \in NormalizerPoses, q \in NormalizerPoses}

\* The normaliser applied to a detector answer on the present canvas.
NormalizePoses(poses) ==
    /\ Len(poses) <= maxPoses
    /\ lastCycle' = [kind |-> "normalize", poses |-> poses,
                     canvas |-> canvasSize,
                     currentPoses |-> Normalize(poses, canvasSize)]
    /\ UNCHANGED <<trackedPoses, clock, spawnCount, setupVars, loopVars>>
    /\ UNCHANGED <<modeVars, appVars>>

NextNormalizer ==
    \/ \E poses \in NormalizerDetections : NormalizePoses(poses)
    \/ \E size \in NormalizerCanvasSizes : Resize(size)

SpecNormalizer == Init /\ [][NextNormalizer]_vars

(***************************************************************************)
(* The detection loop alone: the effect's instances, their frames and      *)
(* their detector calls, with the clock standing still, whether the model  *)
(* and the camera are set up or fail.                                      *)
(***************************************************************************)
NextLoop ==
    \/ \E i \in 1..MaxLoops : Tick(i)
    \/ \E i \in 1..MaxLoops, poses \in LoopDetections, randoms \in RandomDraws :
          DetectorResolves(i, poses, randoms, clock)
    \/ \E i \in 1..MaxLoops : DetectorRejects(i, clock)
    \/ SetupSucceeds
    \/ SetupFails
    \/ CameraResolves
    \/ CameraRejects
    \/ LoadedMetadata
    \/ \E size \in LoopCanvasSizes : Resize(size)
    \/ \E refAtCleanup \in BOOLEAN : Unmount(refAtCleanup)

SpecLoop == Init /\ [][NextLoop]_vars

\* The mode-switching variant alone, and App's console capture alone.
SpecMode == Init /\ [][NextMode]_vars
SpecApp == Init /\ [][NextApp]_vars

\* The same under the scheduling the browser provides: an animation-frame
\* callback that is requested does fire, and a detector call does settle.
\* Resizes, the setups and the unmount come when they come.
FrameFires == \E i \in 1..MaxLoops : Tick(i)
DetectorSettles ==
    \/ \E i \in 1..MaxLoops, poses \in LoopDetections, randoms \in RandomDraws :
          DetectorResolves(i, poses, randoms, clock)
    \/ \E i \in 1..MaxLoops : DetectorRejects(i, clock)
SpecFairLoop ==
    Init /\ [][NextLoop]_vars /\ WF_vars(FrameFires) /\ WF_vars(DetectorSettles)

(***************************************************************************)
(* Properties.                                                             *)
(***************************************************************************)
InFlight == {i \in 1..MaxLoops : loops[i].inFlight}
Reconciled == lastCycle.kind = "reconcile"
Steps == lastCycle.steps

\* The tracked poses of a set that are closer to the candidate than the
\* acquisition threshold.
Near(candidate, tracked) ==
    {i \in 1..Len(tracked) :
        DistanceLess(calculatePoseDistance(candidate.keypoints, tracked[i].keypoints),
                     Pixels(MatchThreshold))}

\* The tracked poses of a set that are closer to the candidate than the
\* duplicate-suppression threshold.
Close(candidate, tracked) ==
    {i \in 1..Len(tracked) :
        DistanceLess(calculatePoseDistance(candidate.keypoints, tracked[i].keypoints),
                     Pixels(TooCloseThreshold))}

\* C1: at most one detector.estimatePoses call is in flight at any time,
\* over all the instances of the loop effect.
C1_AtMostOneInFlight == Cardinality(InFlight) <= 1

\* C2: within one reconcile no tracked pose is updated by two candidates:
\* a pose a candidate has matched is not matched by a later candidate of
\* the same cycle.
C2_OneCandidatePerPose ==
    Reconciled =>
        \A k1, k2 \in 1..Len(Steps) :
            (k1 < k2 /\ Steps[k1].outcome = "update" /\ Steps[k2].outcome = "update")
                => Steps[k1].index # Steps[k2].index

\* C3: every tracked pose in the set a reconcile wrote at time now was last
\* seen at most the staleness window (1500 ms) before now.
C3_ResultIsFresh ==
    Reconciled =>
        \A i \in 1..Len(lastCycle.result) :
            lastCycle.now - lastCycle.result[i].lastSeen <= StaleAfter

\* C3 witness: a reconcile wrote a set in which a pose it did not match
\* survives with a positive age.
C3_Witness ==
    /\ Reconciled
    /\ \E i \in 1..Len(lastCycle.result) :
           lastCycle.now - lastCycle.result[i].lastSeen > 0

\* C4: a tracked pose keeps its id and its hue from one tracked-pose set to
\* the next, whatever the reconcile between them did to it.
C4_IdAndHueStable ==
    [][\A i \in 1..Len(trackedPoses), j \in 1..Len(trackedPoses') :
          trackedPoses[i].uid = trackedPoses'[j].uid
              => /\ trackedPoses[i].id = trackedPoses'[j].id
                 /\ trackedPoses[i].hue = trackedPoses'[j].hue]_vars

\* C4 witness: the latest reconcile matched a tracked pose to a candidate
\* that moved it, and the pose is in the set.
C4_Witness ==
    /\ Reconciled
    /\ \E k \in 1..Len(Steps) :
           /\ Steps[k].outcome = "update"
           /\ Steps[k].before[Steps[k].index].keypoints # Steps[k].candidate.keypoints
           /\ Steps[k].before[Steps[k].index].lastSeen < lastCycle.now
           /\ \E j \in 1..Len(trackedPoses) :
                  /\ trackedPoses[j].uid = Steps[k].before[Steps[k].index].uid
                  /\ trackedPoses[j].lastSeen = lastCycle.now

\* C5: a detection cycle whose detector call rejected leaves the tracked-
\* pose set as a reconcile of the instance's set with no candidates at that
\* time would: in particular without the poses past the staleness window.
C5_RejectionActsAsEmptyReconcile ==
    lastCycle.kind = "rejected" =>
        lastCycle.after = FilterPoses(lastCycle.input, lastCycle.now)

\* C6: an instance of the loop effect whose cleanup has run has no
\* animation-frame callback pending (so it never ticks again).
C6_CleanedLoopIsQuiet ==
    \A i \in 1..MaxLoops : loops[i].cleaned => ~loops[i].scheduled

\* C7: once the component is torn down with a detector stored, dispose()
\* has been called on the detector.
C7_DetectorDisposed == (~mounted /\ detector # "none") => disposed

\* C8: once the component is torn down, a camera stream that getUserMedia
\* has delivered has its tracks stopped.
C8_StreamStopped == (~mounted /\ camera = "streaming") => tracksStopped

\* C9: every reconcile starts from the tracked-pose set as it stands, the
\* one the most recently completed reconcile wrote.
C9_ReconcileFromLatest == Reconciled => lastCycle.input = lastCycle.state

\* C10 as claimed: a candidate below the acquisition threshold to exactly
\* one pose of the set the reconcile started from updates that pose, at
\* every position in the detector's list.
C10_Original ==
    (Reconciled /\ Len(Steps) > 0) =>
        \A k \in 1..Len(Steps) :
            LET near == Near(Steps[k].candidate, Steps[1].before)
            IN  Cardinality(near) = 1
                    => /\ Steps[k].outcome = "update"
                       /\ Steps[k].index \in near

\* C10 as amended: a candidate below the acquisition threshold to exactly
\* one tracked pose, as the earlier candidates of the cycle left the set,
\* updates that pose and adds none: the set keeps its length, the pose gets
\* the candidate's keypoints and the others stay as they were.
C10_MatchesTheOnlyNearPose ==
    Reconciled =>
        \A k \in 1..Len(Steps) :
            LET near == Near(Steps[k].candidate, Steps[k].before)
            IN  Cardinality(near) = 1
                    => /\ Steps[k].outcome = "update"
                       /\ Steps[k].index \in near
                       /\ Len(Steps[k].after) = Len(Steps[k].before)
                       /\ \A i \in 1..Len(Steps[k].before) :
                              IF i \in near
                              THEN Steps[k].after[i].keypoints = Steps[k].candidate.keypoints
                              ELSE Steps[k].after[i] = Steps[k].before[i]

\* C10 witness: the second candidate of a cycle, with two poses tracked, is
\* near exactly one of them and updates it.
C10_Witness ==
    /\ Reconciled
    /\ Len(Steps) >= 2
    /\ Len(Steps[2].before) >= 2
    /\ Cardinality(Near(Steps[2].candidate, Steps[2].before)) = 1
    /\ Steps[2].outcome = "update"

\* The candidates of the latest cycle lie within the duplicate-suppression
\* threshold of each other.
CloseCandidates(k1, k2) ==
    DistanceLess(calculatePoseDistance(Steps[k1].candidate.keypoints,
                                       Steps[k2].candidate.keypoints),
                 Pixels(TooCloseThreshold))
Outcomes(outcome) == {k \in 1..Len(Steps) : Steps[k].outcome = outcome}
\* The case of C11: a cycle of two candidates close to each other, one of
\* which updated a tracked pose while the other did not.
OneOfTwoMatched ==
    /\ Reconciled
    /\ Len(Steps) = 2
    /\ CloseCandidates(1, 2)
    /\ Cardinality(Outcomes("update")) = 1

\* C11 as claimed: when two candidates of a cycle are within the duplicate-
\* suppression threshold of each other and only one of them matches a
\* tracked pose, the cycle creates exactly one new tracked pose.
C11_Original == OneOfTwoMatched => Cardinality(Outcomes("spawn")) = 1

\* C11 as amended: in that case the cycle creates at most one new tracked
\* pose, and none when the matching candidate comes first: the other
\* candidate is then discarded, the tracked set keeps its length.
C11_AtMostOneSpawn ==
    OneOfTwoMatched =>
        /\ Cardinality(Outcomes("spawn")) <= 1
        /\ Len(Steps[2].after) <= Len(Steps[1].before) + 1
        /\ Steps[1].outcome = "update"
               => /\ Steps[2].outcome = "discard"
                  /\ Len(Steps[2].after) = Len(Steps[1].before)

\* C11 witness: the first of two close candidates moved a tracked pose and
\* the second, which is no double of it, was discarded.
C11_Witness ==
    /\ OneOfTwoMatched
    /\ Steps[1].outcome = "update"
    /\ Steps[2].outcome = "discard"
    /\ Steps[1].candidate # Steps[2].candidate

\* C12: a reconcile with no candidates leaves every pose that stays in the
\* set exactly as it was (keypoints, id, hue): it only removes poses.
C12_EmptyReconcileOnlyEvicts ==
    [][(lastCycle'.kind = "reconcile" /\ Len(lastCycle'.steps) = 0)
          => /\ Len(trackedPoses') <= Len(trackedPoses)
             /\ \A j \in 1..Len(trackedPoses') :
                    \E i \in 1..Len(trackedPoses) :
                        /\ trackedPoses[i].uid = trackedPoses'[j].uid
                        /\ trackedPoses[i].keypoints = trackedPoses'[j].keypoints
                        /\ trackedPoses[i].id = trackedPoses'[j].id
                        /\ trackedPoses[i].hue = trackedPoses'[j].hue]_vars

\* C12 witness: a reconcile with no candidates has left in the set a pose
\* that has aged since it was last seen.
C12_Witness ==
    /\ Reconciled
    /\ Len(Steps) = 0
    /\ \E i \in 1..Len(trackedPoses) : trackedPoses[i].lastSeen < lastCycle.now

\* C13: a reconcile at time now removes a tracked pose if and only if its
\* age now - lastSeen exceeds the staleness window: a pose whose age is at
\* most the window stays, and every pose that stays is at most that old.
C13_EvictsOnlyPastWindow ==
    [][lastCycle' # lastCycle
          => /\ \A i \in 1..Len(trackedPoses) :
                    clock' - trackedPoses[i].lastSeen <= StaleAfter
                        => \E j \in 1..Len(trackedPoses') :
                               trackedPoses'[j].uid = trackedPoses[i].uid
             /\ \A j \in 1..Len(trackedPoses') :
                    clock' - trackedPoses'[j].lastSeen <= StaleAfter]_vars

\* A candidate that no tracked pose matches and that is not within the
\* duplicate-suppression threshold of any, the tracked poses taken as they
\* stand at the candidate's turn.
Unclaimed(k) ==
    /\ Near(Steps[k].candidate, Steps[k].before) = {}
    /\ Close(Steps[k].candidate, Steps[k].before) = {}
\* The candidate of step k became one new tracked pose, the last of the set.
BecameNewPose(k) ==
    /\ Steps[k].outcome = "spawn"
    /\ Len(Steps[k].after) = Len(Steps[k].before) + 1
    /\ SubSeq(Steps[k].after, 1, Len(Steps[k].before)) = Steps[k].before
    /\ Steps[k].after[Len(Steps[k].after)].keypoints = Steps[k].candidate.keypoints
    /\ Steps[k].after[Len(Steps[k].after)].lastSeen = lastCycle.now
\* A reconcile of the empty set with one candidate wrote exactly that pose.
AloneInResult ==
    /\ Len(lastCycle.result) = 1
    /\ lastCycle.result[1].keypoints = Steps[1].candidate.keypoints
    /\ lastCycle.result[1].lastSeen = lastCycle.now

\* C14 as claimed: an accepted candidate that matches no tracked pose and
\* is not within the duplicate-suppression threshold of any becomes exactly
\* one new tracked pose with its keypoints and lastSeen = now; a reconcile
\* of the empty set with one accepted candidate yields one tracked pose.
C14_Original ==
    Reconciled =>
        /\ \A k \in 1..Len(Steps) : Unclaimed(k) => BecameNewPose(k)
        /\ (Len(Steps) = 1 /\ Steps[1].before = <<>>) => AloneInResult

\* C14 as amended: the same for a candidate of at least 8 keypoints (an
\* accepted candidate of 7 keypoints that matches nothing is dropped).
C14_SpawnsWithEightKeypoints ==
    Reconciled =>
        /\ \A k \in 1..Len(Steps) :
               IF Unclaimed(k) /\ Len(Steps[k].candidate.keypoints) >= MinSpawnKeypoints
               THEN BecameNewPose(k)
               ELSE Unclaimed(k) => /\ Steps[k].outcome = "discard"
                                    /\ Steps[k].after = Steps[k].before
        /\ (/\ Len(Steps) = 1
            /\ Steps[1].before = <<>>
            /\ Len(Steps[1].candidate.keypoints) >= MinSpawnKeypoints) => AloneInResult

\* C14 witness: with a pose tracked already, the second candidate of a
\* cycle at a later time became a new tracked pose.
C14_Witness ==
    /\ Reconciled
    /\ lastCycle.now > 0
    /\ \E k \in 1..Len(Steps) :
           /\ Len(Steps[k].before) > 0
           /\ Unclaimed(k)
           /\ BecameNewPose(k)

TwoForOne == Reconciled /\ Len(Steps) = 2 /\ Len(Steps[1].before) = 1
\* The result holds no pose but P, unchanged in id and hue.
OnlyP(P) ==
    \A j \in 1..Len(lastCycle.result) :
        /\ lastCycle.result[j].uid = P.uid
        /\ lastCycle.result[j].id = P.id
        /\ lastCycle.result[j].hue = P.hue

\* C16 as claimed: a set holding only P and two candidates both within the
\* duplicate-suppression threshold of P give a result of exactly one pose,
\* P with its id and hue.
C16_Original ==
    (/\ TwoForOne
     /\ \A k \in 1..2 : Close(Steps[k].candidate, Steps[1].before) # {})
        => /\ Len(lastCycle.result) = 1
           /\ OnlyP(Steps[1].before[1])

\* C16 as amended: with both candidates within the threshold of P as P
\* stands at each candidate's turn, no second pose is spawned: the result
\* holds no pose but P, and holds P when a candidate matched it or its age
\* is below the staleness window.
C16_NoSecondPose ==
    (/\ TwoForOne
     /\ \A k \in 1..2 : Close(Steps[k].candidate, Steps[k].before) # {})
        => /\ Outcomes("spawn") = {}
           /\ Len(lastCycle.result) <= 1
           /\ OnlyP(Steps[1].before[1])
           /\ (\/ Outcomes("update") # {}
               \/ lastCycle.now - Steps[1].before[1].lastSeen < StaleAfter)
                  => Len(lastCycle.result) = 1

\* C16 witness: the first candidate moved P and the second, more than the
\* acquisition threshold from where P now stands, was discarded.
C16_Witness ==
    /\ TwoForOne
    /\ \A k \in 1..2 : Close(Steps[k].candidate, Steps[k].before) # {}
    /\ Steps[1].outcome = "update"
    /\ Steps[2].outcome = "discard"
    /\ Len(lastCycle.result) = 1

\* C17: in every instance the detector has been called once per 15 runs of
\* detectPose that passed the guard, on the runs whose frame count is a
\* multiple of 15, and every such run that has ended, detection or not, has
\* drawn the tracked poses the instance holds.
C17_DetectsEveryFifteenthAndDraws ==
    \A i \in 1..MaxLoops :
        loops[i].state = "live" =>
            /\ loops[i].estimates = loops[i].frameCount \div poseDetectionInterval
            /\ loops[i].inFlight => loops[i].frameCount % poseDetectionInterval = 0
            /\ (/\ loops[i].frameCount > 0
                /\ ~loops[i].inFlight
                /\ loops[i].trackedPoses # <<>>) => loops[i].painted

\* C18: a run of detectPose that passes the guard while a detector call is
\* in flight does not call the detector, and draws the tracked poses.
C18_TickDuringDetectionOnlyDraws ==
    [][\A i \in 1..MaxLoops :
          (/\ InFlight # {}
           /\ loops'[i].state = "live"
           /\ loops[i].state = "live"
           /\ loops'[i].frameCount = loops[i].frameCount + 1)
              => /\ ~loops'[i].inFlight
                 /\ loops'[i].painted]_vars

\* C19: the flag of an instance is set exactly while its detector call is
\* in flight, with no frame requested meanwhile; it is set only by a run a
\* pending frame started, and when the call settles, resolved or rejected,
\* the run leaves the flag clear and one frame requested.
C19_IdleDetectingIdle ==
    [][/\ \A i \in 1..MaxLoops :
              /\ loops'[i].isDetecting <=> loops'[i].inFlight
              /\ loops'[i].inFlight => ~loops'[i].scheduled
              /\ (loops'[i].isDetecting /\ ~loops[i].isDetecting)
                     => /\ loops[i].state = "live"
                        /\ loops[i].scheduled
                        /\ loops'[i].frameCount = loops[i].frameCount + 1
              /\ (loops[i].isDetecting /\ ~loops'[i].isDetecting)
                     => /\ loops[i].inFlight
                        /\ lastCycle'.kind # "none"
                        /\ lastCycle'.loop = i
       /\ lastCycle'.kind # "none"
              => /\ ~lastCycle'.left.isDetecting
                 /\ ~lastCycle'.left.inFlight
                 /\ lastCycle'.left.scheduled]_vars

\* C19 witness: a detector call was rejected and its instance is idle with
\* a frame requested.
C19_Witness ==
    /\ lastCycle.kind = "rejected"
    /\ loops[lastCycle.loop].state = "live"
    /\ loops[lastCycle.loop].estimates = 1
    /\ ~loops[lastCycle.loop].isDetecting
    /\ loops[lastCycle.loop].scheduled

\* C20: the poses drawn on a detection run are the tracked-pose set that
\* run's reconcile produced.
C20_DrawsReconciledSet == Reconciled => lastCycle.drawn = lastCycle.result

Normalized == lastCycle.kind = "normalize"
\* The keypoints of a raw pose that satisfy a test, as the set of their
\* places in the pose.
Above(pose, floor) == {i \in 1..Len(pose) : pose[i].score > floor}
AtLeast(pose, floor) == {i \in 1..Len(pose) : pose[i].score >= floor}
RECURSIVE SumOf(_, _)
SumOf(pose, I) ==
    IF I = {} THEN 0
    ELSE LET i == CHOOSE j \in I : TRUE
         IN  pose[i].score + SumOf(pose, I \ {i})
\* The gate as C21 states it: the mean is taken over the keypoints that
\* are left after those below the floor are dropped.
GateOfRemaining(pose) ==
    LET left == AtLeast(pose, KeypointScoreFloor)
    IN  /\ Cardinality(left) >= MinCandidateKeypoints
        /\ SumOf(pose, left) > PoseScoreFloor * Cardinality(left)
\* The gate with the mean taken over all the keypoints of the raw pose and
\* the keypoints at the floor itself dropped.
GateOfAll(pose) ==
    /\ Cardinality(Above(pose, KeypointScoreFloor)) >= MinCandidateKeypoints
    /\ Len(pose) > 0
    /\ SumOf(pose, 1..Len(pose)) > PoseScoreFloor * Len(pose)
Passing(Gate(_)) == {k \in 1..Len(lastCycle.poses) : Gate(lastCycle.poses[k])}
\* The raw pose the j-th candidate comes from: the j-th of those passing.
RECURSIVE NthOf(_, _)
NthOf(I, j) ==
    LET m == CHOOSE i \in I : \A n \in I : i <= n
    IN  IF j = 1 THEN m ELSE NthOf(I \ {m}, j - 1)

\* C21 as claimed: the raw poses that become candidates are those that,
\* once their keypoints below the floor 0.4 are dropped, keep at least 7
\* keypoints whose mean score is above 0.45; no candidate keypoint has a
\* score below the floor.
C21_Original ==
    Normalized =>
        /\ Len(lastCycle.currentPoses) = Cardinality(Passing(GateOfRemaining))
        /\ \A j \in 1..Len(lastCycle.currentPoses) :
               \A i \in 1..Len(lastCycle.currentPoses[j].keypoints) :
                   lastCycle.currentPoses[j].keypoints[i].score >= KeypointScoreFloor

\* C21 as amended: the raw poses that become candidates are those whose
\* mean score over all their keypoints is above 0.45 and that have at
\* least 7 keypoints with a score above 0.4; the candidate holds exactly
\* those keypoints, in order, so each has a score above the floor.
C21_GateOverAllKeypoints ==
    Normalized =>
        /\ Len(lastCycle.currentPoses) = Cardinality(Passing(GateOfAll))
        /\ \A j \in 1..Len(lastCycle.currentPoses) :
               LET raw == lastCycle.poses[NthOf(Passing(GateOfAll), j)]
                   kept == lastCycle.currentPoses[j].keypoints
               IN  /\ Len(kept) = Cardinality(Above(raw, KeypointScoreFloor))
                   /\ \A i \in 1..Len(kept) :
                          /\ kept[i].score > KeypointScoreFloor
                          /\ \E r \in Above(raw, KeypointScoreFloor) :
                                 /\ raw[r].name = kept[i].name
                                 /\ raw[r].score = kept[i].score
                   /\ \A i1, i2 \in 1..Len(kept) :
                          i1 < i2 => FindKeypoint(raw, kept[i1].name)
                                         < FindKeypoint(raw, kept[i2].name)

\* C21 witness: of two raw poses the first was rejected for its mean score
\* and the second, with keypoints at the floor, became a candidate of
\* fewer keypoints.
C21_Witness ==
    /\ Normalized
    /\ Len(lastCycle.poses) = 2
    /\ Passing(GateOfAll) = {2}
    /\ Len(lastCycle.currentPoses) = 1
    /\ Len(lastCycle.currentPoses[1].keypoints) < Len(lastCycle.poses[2])
    /\ AtLeast(lastCycle.poses[2], KeypointScoreFloor)
           # Above(lastCycle.poses[2], KeypointScoreFloor)

\* C23: every candidate keypoint lies at x = canvasWidth - (x_raw /
\* videoWidth) * canvasWidth, y = (y_raw / videoHeight) * canvasHeight of
\* its raw keypoint; for 0 <= x_raw <= videoWidth, 0 <= x <= canvasWidth;
\* of two keypoints the one with the larger x_raw has the smaller x, and y
\* keeps the order of y_raw.
C23_MirroredCanvasCoordinates ==
    Normalized =>
        \A j \in 1..Len(lastCycle.currentPoses) :
            LET raw == lastCycle.poses[NthOf(Passing(GateOfAll), j)]
                kept == lastCycle.currentPoses[j].keypoints
                w == lastCycle.canvas.width
                h == lastCycle.canvas.height
                From(i) == raw[FindKeypoint(raw, kept[i].name)]
            IN  /\ \A i \in 1..Len(kept) :
                       /\ kept[i].x * VideoWidth = w * VideoWidth - From(i).x * w
                       /\ kept[i].y * VideoHeight = From(i).y * h
                       /\ (0 <= From(i).x /\ From(i).x <= VideoWidth)
                              => (0 <= kept[i].x /\ kept[i].x <= w)
                /\ \A i1, i2 \in 1..Len(kept) :
                       /\ From(i1).x < From(i2).x => kept[i1].x > kept[i2].x
                       /\ From(i1).y < From(i2).y => kept[i1].y < kept[i2].y

\* C23 witness: a candidate on the larger canvas with a keypoint on the
\* left edge of the video frame, drawn on the right edge of the canvas, and
\* one on the right edge, drawn on the left.
C23_Witness ==
    /\ Normalized
    /\ lastCycle.canvas.width # VideoWidth
    /\ \E j \in 1..Len(lastCycle.currentPoses) :
           \E i \in 1..Len(lastCycle.currentPoses[j].keypoints) :
               lastCycle.currentPoses[j].keypoints[i].x = lastCycle.canvas.width
    /\ \E j \in 1..Len(lastCycle.currentPoses) :
           \E i \in 1..Len(lastCycle.currentPoses[j].keypoints) :
               lastCycle.currentPoses[j].keypoints[i].x = 0

\* C22: once the camera acquisition has failed, the loop of the mounted
\* component has its next frame requested, no instance calls or has called
\* the detector, no frame has passed the guard, and the tracked-pose set
\* is empty.
C22_CameraFailureIdlesLoop ==
    camera = "denied" =>
        /\ mounted => (loops[current].state = "live" /\ loops[current].scheduled)
        /\ InFlight = {}
        /\ \A i \in 1..MaxLoops :
               loops[i].estimates = 0 /\ loops[i].frameCount = 0
        /\ trackedPoses = <<>>
        /\ lastCycle.kind = "none"

\* C22 witness: the camera was refused, the detector is loaded all the
\* same, and the effect has run again since.
C22_Witness ==
    /\ camera = "denied"
    /\ detector # "none"
    /\ ~isLoading
    /\ mounted
    /\ loops[current].detector # "none"
    /\ loops[current].scheduled

\* C27: an instance whose detector call is pending has no animation frame
\* requested, and for as long as the call stays pending the instance does
\* nothing: no frame is requested, its frame count stands and it calls the
\* detector no more.  Only the step that settles the call requests its
\* next frame.
C27_PendingCallHoldsTheLoop ==
    [][\A i \in 1..MaxLoops :
          /\ loops'[i].inFlight => ~loops'[i].scheduled
          /\ (loops[i].inFlight /\ loops'[i].inFlight)
                 => /\ loops'[i].frameCount = loops[i].frameCount
                    /\ loops'[i].estimates = loops[i].estimates
                    /\ loops'[i].isDetecting
          /\ (loops[i].inFlight /\ ~loops'[i].inFlight)
                 => /\ lastCycle'.kind # "none"
                    /\ lastCycle'.loop = i
                    /\ lastCycle'.left.scheduled]_vars

\* C27 witness: an instance is held at its 15th frame by a pending call
\* while the instance that replaced it has gone through frames of its own.
C27_Witness ==
    \E i \in 1..MaxLoops :
        /\ loops[i].inFlight
        /\ loops[i].frameCount = poseDetectionInterval
        /\ ~loops[i].scheduled
        /\ i # current
        /\ loops[current].frameCount > 1

\* C29: no instance calls estimatePoses before the detector is stored,
\* isLoading is false and the video's metadata has loaded.
C29_NoCallBeforeReady ==
    \A i \in 1..MaxLoops :
        (loops[i].inFlight \/ loops[i].estimates > 0)
            => /\ tfSetup = "created"
               /\ detector # "none"
               /\ ~isLoading
               /\ camera = "streaming"
               /\ srcObject
               /\ isVideoReady

\* C29 witness: a call is pending, made by an instance that was started
\* when the last of the three conditions came true.
C29_Witness ==
    \E i \in 1..MaxLoops :
        /\ loops[i].inFlight
        /\ loops[i].estimates = 1
        /\ lastCycle.kind = "none"


\* The candidates of the latest cycle, in the order of their steps.
Candidates == [k \in 1..Len(Steps) |-> Steps[k].candidate]
\* The distance from the candidate of step k to the pose the set held at
\* place i when the candidate's turn came.
DistanceAt(k, i) ==
    calculatePoseDistance(Steps[k].candidate.keypoints, Steps[k].before[i].keypoints)
\* Of the poses near the candidate of step k, place i is the first of
\* those at the least distance.
FirstOfTheClosest(k, i, near) ==
    /\ i \in near
    /\ \A j \in near : ~DistanceLess(DistanceAt(k, j), DistanceAt(k, i))
    /\ \A j \in near : j < i => DistanceLess(DistanceAt(k, i), DistanceAt(k, j))

\* C24: the candidates are taken in the order the detector returned them,
\* each against the set as the candidate before it left it; a candidate
\* with tracked poses below the acquisition threshold updates the one at
\* the least distance, the earliest in the set among several at that
\* distance, and a candidate with none updates nothing.
C24_ClosestFirstInScanOrder ==
    Reconciled =>
        /\ Candidates = Normalize(lastCycle.poses, canvasSize)
        /\ \A k \in 1..Len(Steps) :
               LET near == Near(Steps[k].candidate, Steps[k].before)
               IN  /\ k > 1 => Steps[k].before = Steps[k - 1].after
                   /\ IF near = {}
                      THEN Steps[k].outcome # "update"
                      ELSE /\ Steps[k].outcome = "update"
                           /\ FirstOfTheClosest(k, Steps[k].index, near)

\* C24 witness: with two poses tracked, a cycle whose candidate is equally
\* far from both updated the first; the poses differ, so the choice shows.
C24_Witness ==
    /\ Reconciled
    /\ \E k \in 1..Len(Steps) :
           /\ Len(Steps[k].before) = 2
           /\ Near(Steps[k].candidate, Steps[k].before) = {1, 2}
           /\ ~DistanceLess(DistanceAt(k, 1), DistanceAt(k, 2))
           /\ ~DistanceLess(DistanceAt(k, 2), DistanceAt(k, 1))
           /\ Steps[k].before[1].keypoints # Steps[k].before[2].keypoints
           /\ Steps[k].outcome = "update"
           /\ Steps[k].index = 1

\* The reference joints two poses both have.
SharedReferenceJoints(pose1, pose2) ==
    {name \in {"nose", "left_shoulder", "right_shoulder"} :
        /\ \E i \in 1..Len(pose1) : pose1[i].name = name
        /\ \E j \in 1..Len(pose2) : pose2[j].name = name}
\* The Euclidean distance between the two poses' keypoints of one name.
Gap(pose1, pose2, name) ==
    LET a == pose1[CHOOSE i \in 1..Len(pose1) : pose1[i].name = name]
        b == pose2[CHOOSE j \in 1..Len(pose2) : pose2[j].name = name]
    IN  Hypot(a.x - b.x, a.y - b.y)
RECURSIVE SumOfGaps(_, _, _)
SumOfGaps(pose1, pose2, names) ==
    IF names = {} THEN 0
    ELSE LET name == CHOOSE n \in names : TRUE
         IN  Gap(pose1, pose2, name) + SumOfGaps(pose1, pose2, names \ {name})

\* C25: the distance of a candidate to a tracked pose is the sum of the
\* Euclidean distances over the reference joints both have, divided by
\* their number; with no such joint the candidate is not below either
\* threshold to the pose and does not update it.
C25_MeanOverSharedReferenceJoints ==
    Reconciled =>
        \A k \in 1..Len(Steps) : \A i \in 1..Len(Steps[k].before) :
            LET shared == SharedReferenceJoints(Steps[k].candidate.keypoints,
                                                Steps[k].before[i].keypoints)
            IN  /\ DistanceAt(k, i).valid = Cardinality(shared)
                /\ DistanceAt(k, i).total =
                       SumOfGaps(Steps[k].candidate.keypoints,
                                 Steps[k].before[i].keypoints, shared)
                /\ shared = {} =>
                       /\ ~(Steps[k].outcome = "update" /\ Steps[k].index = i)
                       /\ ~DistanceLess(DistanceAt(k, i), Pixels(MatchThreshold))
                       /\ ~DistanceLess(DistanceAt(k, i), Pixels(TooCloseThreshold))

\* C25 witness: a cycle whose first candidate shares one reference joint
\* with the tracked pose, 30 px away, and updated it, and whose second
\* candidate shares none with the pose and became a new one.
C25_Witness ==
    /\ Reconciled
    /\ Len(Steps) = 2
    /\ Len(Steps[1].before) = 1
    /\ Cardinality(SharedReferenceJoints(Steps[1].candidate.keypoints,
                                         Steps[1].before[1].keypoints)) = 1
    /\ DistanceAt(1, 1) = Pixels(30)
    /\ Steps[1].outcome = "update"
    /\ SharedReferenceJoints(Steps[2].candidate.keypoints,
                             Steps[2].before[1].keypoints) = {}
    /\ Steps[2].outcome = "spawn"

\* C26: a candidate with no tracked pose below the acquisition threshold
\* and at least one below the duplicate-suppression threshold is dropped:
\* the set is after its turn what it was before, and the set the cycle
\* writes holds no pose that the candidate's turn did not find there.
C26_SuppressedCandidateIsDropped ==
    Reconciled =>
        \A k \in 1..Len(Steps) :
            (/\ Near(Steps[k].candidate, Steps[k].before) = {}
             /\ Close(Steps[k].candidate, Steps[k].before) # {})
                => /\ Steps[k].outcome = "discard"
                   /\ Steps[k].after = Steps[k].before
                   /\ k = Len(Steps) =>
                          \A j \in 1..Len(lastCycle.result) :
                              \E i \in 1..Len(Steps[k].before) :
                                  lastCycle.result[j] = Steps[k].before[i]

\* C26 witness: a whole body (11 keypoints) 50 px from the only tracked
\* pose, at the candidate's turn, was dropped.
C26_Witness ==
    /\ Reconciled
    /\ \E k \in 1..Len(Steps) :
           /\ Len(Steps[k].before) = 1
           /\ Len(Steps[k].candidate.keypoints) >= MinSpawnKeypoints
           /\ Near(Steps[k].candidate, Steps[k].before) = {}
           /\ Close(Steps[k].candidate, Steps[k].before) = {1}
           /\ Steps[k].outcome = "discard"
           /\ Len(lastCycle.result) = 1

\* The candidate of step k has none of the reference joints.
WithoutReferenceJoints(k) ==
    \A i \in 1..Len(Steps[k].candidate.keypoints) :
        Steps[k].candidate.keypoints[i].name
            \notin {"nose", "left_shoulder", "right_shoulder"}
\* The tracked poses that had, at the turn of candidate k, exactly the
\* candidate's keypoints.
SameKeypoints(k) ==
    {i \in 1..Len(Steps[k].before) :
        Steps[k].before[i].keypoints = Steps[k].candidate.keypoints}

\* C30: a candidate of at least 8 keypoints, none of them a reference
\* joint, becomes a new tracked pose in the cycle it appears in, whatever
\* the set holds, and the set the cycle writes has the new pose.
C30_NoReferenceJointsAlwaysSpawns ==
    Reconciled =>
        \A k \in 1..Len(Steps) :
            (/\ WithoutReferenceJoints(k)
             /\ Len(Steps[k].candidate.keypoints) >= MinSpawnKeypoints)
                => /\ Steps[k].outcome = "spawn"
                   /\ Len(Steps[k].after) = Len(Steps[k].before) + 1
                   /\ SubSeq(Steps[k].after, 1, Len(Steps[k].before)) = Steps[k].before
                   /\ \E j \in 1..Len(lastCycle.result) :
                          /\ lastCycle.result[j] = Steps[k].after[Len(Steps[k].after)]
                          /\ lastCycle.result[j].keypoints = Steps[k].candidate.keypoints

\* C30 witness: the set held a pose with exactly the candidate's keypoints
\* and the cycle wrote a set with two such poses.
C30_Witness ==
    /\ Reconciled
    /\ \E k \in 1..Len(Steps) :
           /\ WithoutReferenceJoints(k)
           /\ SameKeypoints(k) # {}
           /\ Steps[k].outcome = "spawn"
           /\ Cardinality({j \in 1..Len(lastCycle.result) :
                  lastCycle.result[j].keypoints = Steps[k].candidate.keypoints}) = 2


\* The component is mounted with the detector stored, the model loaded and
\* the video's metadata in.
ReadyToDetect == mounted /\ detector # "none" /\ ~isLoading /\ isVideoReady

\* C28: if animation frames keep firing, then from every state in which
\* the detector is loaded and the video ready a detector call follows (one
\* is in flight), unless the component is unmounted: whatever the number
\* of restarts of the loop effect.  Tracked poses are evicted by a
\* detection cycle only, so their eviction waits on the same call.
C28_DetectionResumes ==
    ([]<><<FrameFires>>_vars) => (ReadyToDetect ~> (InFlight # {} \/ ~mounted))


\* C31: every pose of the tracked set has at least 7 keypoints; a pose is
\* created only from a candidate of at least 8, and a candidate of exactly
\* 7 keypoints updates a tracked pose or is dropped, the set keeping its
\* length.
C31_SevenToStayEightToStart ==
    /\ \A i \in 1..Len(trackedPoses) :
           Len(trackedPoses[i].keypoints) >= MinTrackedKeypoints
    /\ Reconciled =>
           \A k \in 1..Len(Steps) :
               /\ Steps[k].outcome = "spawn" =>
                      Len(Steps[k].after[Len(Steps[k].after)].keypoints)
                          >= MinSpawnKeypoints
               /\ Len(Steps[k].candidate.keypoints) = MinCandidateKeypoints =>
                      /\ Steps[k].outcome \in {"update", "discard"}
                      /\ Len(Steps[k].after) = Len(Steps[k].before)

\* C31 witness: a candidate of exactly 7 keypoints updated a tracked pose,
\* which is in the set with those 7.
C31_Witness ==
    /\ Reconciled
    /\ \E k \in 1..Len(Steps) :
           /\ Len(Steps[k].candidate.keypoints) = MinCandidateKeypoints
           /\ Steps[k].outcome = "update"
           /\ Len(Steps[k].before[Steps[k].index].keypoints) >= MinSpawnKeypoints
           /\ \E i \in 1..Len(trackedPoses) :
                  /\ trackedPoses[i].uid = Steps[k].before[Steps[k].index].uid
                  /\ Len(trackedPoses[i].keypoints) = MinCandidateKeypoints

\* The pose the candidate of step k updated or created, as its step left it.
Touched(k) == Steps[k].after[Steps[k].index]

\* C32: a pose a candidate of the cycle updated or created is in the set
\* the cycle writes, last seen at the cycle's time.
C32_TouchedPoseSurvivesTheCycle ==
    Reconciled =>
        \A k \in 1..Len(Steps) :
            Steps[k].outcome \in {"update", "spawn"} =>
                /\ \E j \in 1..Len(lastCycle.result) :
                       /\ lastCycle.result[j].uid = Touched(k).uid
                       /\ lastCycle.result[j].lastSeen = lastCycle.now
                /\ \E j \in 1..Len(trackedPoses) :
                       trackedPoses[j].uid = Touched(k).uid

\* C32 witness: a cycle matched a pose that was as old as the staleness
\* window with a candidate of 7 keypoints, and the pose is in the result.
C32_Witness ==
    /\ Reconciled
    /\ \E k \in 1..Len(Steps) :
           /\ Steps[k].outcome = "update"
           /\ lastCycle.now - Steps[k].before[Steps[k].index].lastSeen >= StaleAfter
           /\ Len(Steps[k].candidate.keypoints) = MinTrackedKeypoints
           /\ \E j \in 1..Len(lastCycle.result) :
                  lastCycle.result[j].uid = Touched(k).uid

\* C33: no two poses of the tracked set have the same id.
C33_UniqueIds ==
    \A i, j \in 1..Len(trackedPoses) :
        i # j => trackedPoses[i].id # trackedPoses[j].id


\* C34: createDetector has run at most once for the initialisation and
\* once for every change of multiPoseMode.
C34_OneCreationPerModeChange == createCalls <= 1 + toggles

\* The instances of the variant's loop with estimatePoses in flight on a
\* detector that has been disposed.
InFlightOnDisposed ==
    {i \in 1..MaxLoops :
        /\ modeLoops[i].inFlight # 0
        /\ detectors[modeLoops[i].inFlight].disposed}

\* C35: estimatePoses has never been called on a disposed detector and is
\* not in flight on one.
C35_NoCallOnDisposedDetector == ~calledDisposed /\ InFlightOnDisposed = {}

====
